---- MODULE Spec2Model ----
(***************************************************************************)
(* RedditScraper (src/reddit_scraper.py): the stream thread                *)
(* (stream_posts / collect_post_data) and the main thread's periodic       *)
(* checker (check_for_removals / save_data) run concurrently over the      *)
(* shared dictionaries post_id_to_content and post_tracking_start, the set *)
(* collected_posts and the rate limiter's last_request_time.  No lock      *)
(* guards any of them, so every statement of one thread may be followed by *)
(* statements of the other.                                                *)
(*                                                                         *)
(* Time is the wall clock in whole seconds.  The model observes the clock  *)
(* at the instants of Times: a few consecutive seconds when the program    *)
(* starts, and a few consecutive seconds one tracking_duration later.      *)
(* Nothing is assumed about how long a thread stays between two of its     *)
(* statements.  An exception that leaves main ends the process, the daemon *)
(* stream thread included.                                                 *)
(*                                                                         *)
(* Spec and FairSpec are the two threads over posts whose score and        *)
(* comment count stay as they were when the posts were made.  CheckSpec is *)
(* the check loop over posts the stream thread has admitted, while votes   *)
(* and comments arrive at the source.  StatsSpec is save_data entered with *)
(* any batch; its statistics do not read the id of a record.  StreamSpec   *)
(* is the stream thread alone with a feed that raises up to MaxFaults      *)
(* times in a row.  CollectSpec is collect_post_data called for any post,  *)
(* tracked or not.                                                         *)
(***************************************************************************)
EXTENDS Integers, Sequences, FiniteSets, TLC

\* ---------------------------------------------------------------- bounds
MaxSecs == 2
MaxLate == 1
MaxFaults == 2
PostIds == {"p1", "p2"}

\* ------------------------------------------------------ program constants
min_request_interval == 2
tracking_duration == 24 * 60 * 60
check_period == 300
retry_delay == 60
SecondsPerHour == 3600

\* The clock starts late enough that the first request is not delayed, as
\* with time.time() against last_request_time = 0.
Epoch == min_request_interval
Times ==
    {Epoch + s : s \in 0..MaxSecs} \cup {Epoch + tracking_duration + s : s \in 0..MaxLate}

Threads == {"stream", "checker"}
NoPost == "none"
NoStats == <<>>

\* post.score and post.num_comments of a submission that was just made
NewPost == [score |-> 1, num_comments |-> 0]

\* post.score and post.num_comments as the source may report them
Engagements == {NewPost, [score |-> 5, num_comments |-> 3]}

VARIABLES
    now,                  \* time.time()
    source,               \* Reddit: the score and comment count of each post
    pc,                   \* the statement each thread is about to execute
    wake,                 \* end of the time.sleep a thread is in
    post,                 \* stream_posts: the post delivered by the feed
    record,               \* the dict built by collect_post_data for a post id
    collected_posts,
    post_id_to_content,   \* keys in insertion order; key id maps to record[id]
    post_tracking_start,
    last_request_time,
    posts_data,
    updated_data,         \* check_for_removals: local
    current_time,         \* check_for_removals: local
    snapshot,             \* check_for_removals: entries of the list not yet processed
    tracking_start,       \* check_for_removals: local
    stats,                \* save_data: local
    files,                \* the files written under data/, oldest first
    finalized,            \* history: appends to updated_data, per post id
    outcome,              \* history: what the current check cycle did with each id
    fetched,              \* history: the last submissions fetched, per post id
    faults                \* history: feed faults in a row

vars == <<now, source, pc, wake, post, record, collected_posts,
          post_id_to_content, post_tracking_start, last_request_time,
          posts_data, updated_data, current_time, snapshot, tracking_start,
          stats, files, finalized, outcome, fetched, faults>>

streamVars == <<post, record, collected_posts>>
checkerVars == <<updated_data, current_time, snapshot, tracking_start, posts_data,
                 stats, files>>
saveVars == <<stats, files>>
historyVars == <<finalized, outcome, fetched, faults>>

\* ---------------------------------------------------------------- helpers
RECURSIVE Without(_, _)
Without(s, id) ==
    IF s = <<>> THEN <<>>
    ELSE IF Head(s) = id THEN Without(Tail(s), id)
    ELSE <<Head(s)>> \o Without(Tail(s), id)

Keys(s) == {s[i] : i \in 1..Len(s)}

\* d[key] = value for the key set of a dict: a present key keeps its place
StoreKey(s, id) == IF id \in Keys(s) THEN s ELSE Append(s, id)

\* del d[key]
DelKey(f, id) == [x \in DOMAIN f \ {id} |-> f[x]]

\* the tracking start of an evicted entry left in place
KeepStart(f, id) == f

\* del self.post_tracking_start[post_id]
EvictStart(f, id) == DelKey(f, id)

\* dict.update
DictUpdate(d, u) == u @@ d

\* what a fetch of the submission yields
Submission(removed, e) ==
    [is_removed |-> removed, score |-> e.score, num_comments |-> e.num_comments]

\* the dict built by collect_post_data
PostData(id, sub) ==
    [id |-> id, is_removed |-> sub.is_removed,
     score |-> sub.score, num_comments |-> sub.num_comments]

Last(s) == s[Len(s)]

\* the history of fetches keeps the latest submission and the one before it
Remember(s, sub) == IF s = <<>> THEN <<sub>> ELSE <<Last(s), sub>>

\* the dedup test finding no id
SeenNever(id) == FALSE

Seen(id) == id \in collected_posts

\* TimedOut with the operands of the subtraction exchanged
TimedOutSwapped(ct, ts) == ts - ct > tracking_duration

TimedOut(ct, ts) == ct - ts > tracking_duration

\* HoursTracked dividing by the seconds of a minute
HoursTrackedPerMinute(ct, ts) == [num |-> ct - ts, den |-> 60]

\* HoursTracked measuring from current_time back to tracking_start
HoursTrackedReversed(ct, ts) == [num |-> ts - ct, den |-> SecondsPerHour]

\* (current_time - tracking_start) / 3600, kept as an exact fraction
HoursTracked(ct, ts) == [num |-> ct - ts, den |-> SecondsPerHour]

\* CheckUpdate adding the fetched score to the stored one
CheckUpdateAdding(cached_data, sub, ct, ts, t) ==
    DictUpdate(cached_data,
               [is_removed |-> sub.is_removed,
                score |-> cached_data.score + sub.score,
                timestamp_checked |-> t,
                hours_tracked |-> HoursTracked(ct, ts)])

\* cached_data.update({...}) of check_for_removals, at wall-clock time t
CheckUpdate(cached_data, sub, ct, ts, t) ==
    DictUpdate(cached_data,
               [is_removed |-> sub.is_removed,
                timestamp_checked |-> t,
                hours_tracked |-> HoursTracked(ct, ts)])

\* ----------------------------------------------- statistics of save_data
Front(s) == SubSeq(s, 1, Len(s) - 1)

\* float('inf'), the initial value of every 'min'
NoMin == [inf |-> TRUE, val |-> 0]

\* min(stats[...]['min'], x)
PyMin(m, x) == IF m.inf \/ x < m.val THEN [inf |-> FALSE, val |-> x] ELSE m

\* max(stats[...]['max'], x)
PyMax(m, x) == IF x > m THEN x ELSE m

\* stats[...]['min'] after the loop over the batch
RECURSIVE MinOver(_, _)
MinOver(batch, field) ==
    IF batch = <<>> THEN NoMin
    ELSE PyMin(MinOver(Front(batch), field), Last(batch)[field])

\* stats[...]['max'] after the loop over the batch; it starts at 0
RECURSIVE MaxOver(_, _)
MaxOver(batch, field) ==
    IF batch = <<>> THEN 0
    ELSE PyMax(MaxOver(Front(batch), field), Last(batch)[field])

\* total_score, total_comments after the loop over the batch
RECURSIVE Total(_, _)
Total(batch, field) ==
    IF batch = <<>> THEN 0
    ELSE Total(Front(batch), field) + Last(batch)[field]

\* sum(1 for p in self.posts_data if p['is_removed'])
RECURSIVE CountRemoved(_)
CountRemoved(batch) ==
    IF batch = <<>> THEN 0
    ELSE CountRemoved(Front(batch)) + (IF Last(batch).is_removed THEN 1 ELSE 0)

\* Ratio with numerator and denominator exchanged
RatioInverted(n, d) == [num |-> d, den |-> n]

\* a float quotient n / d, kept as an exact fraction
Ratio(n, d) == [num |-> n, den |-> d]

\* the dict stats of save_data when it is written
Stats(batch) ==
    [total_posts |-> Len(batch),
     removed_posts |-> CountRemoved(batch),
     removal_rate |-> Ratio(CountRemoved(batch) * 100, Len(batch)),
     engagement_stats |->
        [score |-> [min |-> MinOver(batch, "score"),
                    max |-> MaxOver(batch, "score"),
                    avg |-> Ratio(Total(batch, "score"), Len(batch))],
         comments |-> [min |-> MinOver(batch, "num_comments"),
                       max |-> MaxOver(batch, "num_comments"),
                       avg |-> Ratio(Total(batch, "num_comments"), Len(batch))]]]

\* the post ids of a batch, in order
IdsOf(batch) == [i \in 1..Len(batch) |-> batch[i].id]

Running == pc["checker"] # "crashed"

\* post_data of collect_post_data / stream_posts still refers to the dict of id
StreamHolds(id) == post = id /\ pc["stream"] \in {"start", "admit"}

\* a dict no variable of the program refers to any more is dropped
Release(rec, id) == IF StreamHolds(id) THEN rec ELSE DelKey(rec, id)

AfterGrant(th) == IF th = "stream" THEN "build" ELSE "fetch"

\* ------------------------------------------------------------------- Init
Init ==
    /\ now = Epoch
    /\ source = [id \in PostIds |-> NewPost]
    /\ pc = [th \in Threads |-> IF th = "stream" THEN "iter" ELSE "begin"]
    /\ wake = [th \in Threads |-> 0]
    /\ post = NoPost
    /\ record = <<>>
    /\ collected_posts = {}
    /\ post_id_to_content = <<>>
    /\ post_tracking_start = <<>>
    /\ last_request_time = 0
    /\ posts_data = <<>>
    /\ updated_data = <<>>
    /\ current_time = 0
    /\ snapshot = <<>>
    /\ tracking_start = 0
    /\ finalized = [id \in PostIds |-> 0]
    /\ outcome = [id \in PostIds |-> "none"]
    /\ fetched = [id \in PostIds |-> <<>>]
    /\ faults = 0
    /\ stats = NoStats
    /\ files = <<>>

\* ------------------------------------------------------------------ clock
Tick ==
    /\ Running
    /\ \E t \in Times : t > now /\ now' = t
    /\ UNCHANGED <<source, pc, wake, streamVars, post_id_to_content,
                   post_tracking_start, last_request_time, checkerVars, historyVars>>

\* ------------------------------------------------------------ _rate_limit
RlCheck(th) ==
    /\ Running
    /\ pc[th] = "rl_check"
    /\ LET time_since_last_request == now - last_request_time
       IN IF time_since_last_request < min_request_interval
          THEN /\ wake' = [wake EXCEPT ![th] =
                              now + (min_request_interval - time_since_last_request)]
               /\ pc' = [pc EXCEPT ![th] = "rl_sleep"]
          ELSE /\ wake' = wake
               /\ pc' = [pc EXCEPT ![th] = "rl_grant"]
    /\ UNCHANGED <<source, now, streamVars, post_id_to_content, post_tracking_start,
                   last_request_time, checkerVars, historyVars>>

RlWake(th) ==
    /\ Running
    /\ pc[th] = "rl_sleep"
    /\ now >= wake[th]
    /\ wake' = [wake EXCEPT ![th] = 0]
    /\ pc' = [pc EXCEPT ![th] = "rl_grant"]
    /\ UNCHANGED <<source, now, streamVars, post_id_to_content, post_tracking_start,
                   last_request_time, checkerVars, historyVars>>

RlGrant(th) ==
    /\ Running
    /\ pc[th] = "rl_grant"
    /\ last_request_time' = now
    /\ pc' = [pc EXCEPT ![th] = AfterGrant(th)]
    /\ UNCHANGED <<source, now, wake, streamVars, post_id_to_content,
                   post_tracking_start, checkerVars, historyVars>>

\* ----------------------------------------- stream_posts, collect_post_data
StreamDeliver ==
    /\ Running
    /\ pc["stream"] = "iter"
    /\ \E p \in PostIds : post' = p
    /\ faults' = 0
    /\ pc' = [pc EXCEPT !["stream"] = "dedup"]
    /\ UNCHANGED <<source, now, wake, record, collected_posts, post_id_to_content,
                   post_tracking_start, last_request_time, checkerVars,
                   finalized, outcome, fetched>>

\* FeedFault going on with the feed at once
FeedFaultNoSleep ==
    /\ Running
    /\ pc["stream"] = "iter"
    /\ faults < MaxFaults
    /\ faults' = faults + 1
    /\ UNCHANGED <<source, now, pc, wake, streamVars, post_id_to_content,
                   post_tracking_start, last_request_time, checkerVars,
                   finalized, outcome, fetched>>

\* the feed raises: both except clauses of stream_posts log and sleep
FeedFault ==
    /\ Running
    /\ pc["stream"] = "iter"
    /\ faults < MaxFaults
    /\ faults' = faults + 1
    /\ wake' = [wake EXCEPT !["stream"] = now + retry_delay]
    /\ pc' = [pc EXCEPT !["stream"] = "backoff"]
    /\ UNCHANGED <<source, now, streamVars, post_id_to_content,
                   post_tracking_start, last_request_time, checkerVars,
                   finalized, outcome, fetched>>

\* time.sleep(60) returns and while True subscribes to the feed again
BackoffWake ==
    /\ Running
    /\ pc["stream"] = "backoff"
    /\ now >= wake["stream"]
    /\ wake' = [wake EXCEPT !["stream"] = 0]
    /\ pc' = [pc EXCEPT !["stream"] = "iter"]
    /\ UNCHANGED <<source, now, streamVars, post_id_to_content,
                   post_tracking_start, last_request_time, checkerVars, historyVars>>

StreamSkip ==
    /\ Running
    /\ pc["stream"] = "dedup"
    /\ Seen(post)
    /\ post' = NoPost
    /\ pc' = [pc EXCEPT !["stream"] = "iter"]
    /\ UNCHANGED <<source, now, wake, record, collected_posts, post_id_to_content,
                   post_tracking_start, last_request_time, checkerVars, historyVars>>

StreamCollect ==
    /\ Running
    /\ pc["stream"] = "dedup"
    /\ ~Seen(post)
    /\ pc' = [pc EXCEPT !["stream"] = "rl_check"]
    /\ UNCHANGED <<source, now, wake, streamVars, post_id_to_content,
                   post_tracking_start, last_request_time, checkerVars, historyVars>>

CollectFail ==
    /\ Running
    /\ pc["stream"] = "build"
    /\ post' = NoPost
    /\ pc' = [pc EXCEPT !["stream"] = "iter"]
    /\ UNCHANGED <<source, now, wake, record, collected_posts, post_id_to_content,
                   post_tracking_start, last_request_time, checkerVars, historyVars>>

CollectStore ==
    /\ Running
    /\ pc["stream"] = "build"
    /\ \E removed \in BOOLEAN :
          record' = (post :> PostData(post, Submission(removed, source[post]))) @@ record
    /\ post_id_to_content' = StoreKey(post_id_to_content, post)
    /\ pc' = [pc EXCEPT !["stream"] = "start"]
    /\ UNCHANGED <<source, now, wake, post, collected_posts, post_tracking_start,
                   last_request_time, checkerVars, historyVars>>

CollectStart ==
    /\ Running
    /\ pc["stream"] = "start"
    /\ post_tracking_start' = (post :> now) @@ post_tracking_start
    /\ pc' = [pc EXCEPT !["stream"] = "admit"]
    /\ UNCHANGED <<source, now, wake, streamVars, post_id_to_content,
                   last_request_time, checkerVars, historyVars>>

StreamAdmit ==
    /\ Running
    /\ pc["stream"] = "admit"
    /\ post_id_to_content' = StoreKey(post_id_to_content, post)
    /\ collected_posts' = collected_posts \cup {post}
    /\ post' = NoPost
    /\ pc' = [pc EXCEPT !["stream"] = "iter"]
    /\ UNCHANGED <<source, now, wake, record, post_tracking_start,
                   last_request_time, checkerVars, historyVars>>

\* ----------------------------------------------------- check_for_removals
ChkBegin ==
    /\ pc["checker"] = "begin"
    /\ updated_data' = <<>>
    /\ current_time' = now
    /\ pc' = [pc EXCEPT !["checker"] = "snap"]
    /\ UNCHANGED <<source, saveVars, now, wake, streamVars, post_id_to_content,
                   post_tracking_start, last_request_time, posts_data, snapshot,
                   tracking_start, historyVars>>

ChkSnapshot ==
    /\ pc["checker"] = "snap"
    /\ snapshot' = post_id_to_content
    /\ outcome' = [id \in PostIds |-> "none"]
    /\ pc' = [pc EXCEPT !["checker"] = "loop"]
    /\ UNCHANGED <<faults, source, saveVars, fetched, now, wake, streamVars, post_id_to_content,
                   post_tracking_start, last_request_time, posts_data, updated_data,
                   current_time, tracking_start, finalized>>

ChkKeyError ==
    /\ pc["checker"] = "loop"
    /\ snapshot # <<>>
    /\ Head(snapshot) \notin DOMAIN post_tracking_start
    /\ outcome' = [outcome EXCEPT ![Head(snapshot)] = "key_error"]
    /\ snapshot' = Tail(snapshot)
    /\ UNCHANGED <<faults, source, saveVars, fetched, now, pc, wake, streamVars, post_id_to_content,
                   post_tracking_start, last_request_time, posts_data, updated_data,
                   current_time, tracking_start, finalized>>

ChkTimeout ==
    /\ pc["checker"] = "loop"
    /\ snapshot # <<>>
    /\ LET post_id == Head(snapshot)
       IN /\ post_id \in DOMAIN post_tracking_start
          /\ TimedOut(current_time, post_tracking_start[post_id])
          /\ updated_data' = Append(updated_data, record[post_id])
          /\ record' = Release(record, post_id)
          /\ post_id_to_content' = Without(post_id_to_content, post_id)
          /\ post_tracking_start' = EvictStart(post_tracking_start, post_id)
          /\ finalized' = [finalized EXCEPT ![post_id] = @ + 1]
          /\ outcome' = [outcome EXCEPT ![post_id] = "timeout"]
    /\ snapshot' = Tail(snapshot)
    /\ UNCHANGED <<faults, source, saveVars, fetched, now, pc, wake, post, collected_posts, last_request_time,
                   posts_data, current_time, tracking_start>>

ChkTrack ==
    /\ pc["checker"] = "loop"
    /\ snapshot # <<>>
    /\ LET post_id == Head(snapshot)
       IN /\ post_id \in DOMAIN post_tracking_start
          /\ ~TimedOut(current_time, post_tracking_start[post_id])
          /\ tracking_start' = post_tracking_start[post_id]
    /\ pc' = [pc EXCEPT !["checker"] = "rl_check"]
    /\ UNCHANGED <<source, saveVars, now, wake, streamVars, post_id_to_content,
                   post_tracking_start, last_request_time, posts_data, updated_data,
                   current_time, snapshot, historyVars>>

\* ChkFetchFail dropping the entry whose fetch failed
ChkFetchFailDrop ==
    /\ pc["checker"] = "fetch"
    /\ outcome' = [outcome EXCEPT ![Head(snapshot)] = "fetch_error"]
    /\ post_id_to_content' = Without(post_id_to_content, Head(snapshot))
    /\ post_tracking_start' = DelKey(post_tracking_start, Head(snapshot))
    /\ snapshot' = Tail(snapshot)
    /\ tracking_start' = 0
    /\ pc' = [pc EXCEPT !["checker"] = "loop"]
    /\ UNCHANGED <<faults, source, saveVars, fetched, now, wake, streamVars, last_request_time, posts_data,
                   updated_data, current_time, finalized>>

ChkFetchFail ==
    /\ pc["checker"] = "fetch"
    /\ outcome' = [outcome EXCEPT ![Head(snapshot)] = "fetch_error"]
    /\ snapshot' = Tail(snapshot)
    /\ tracking_start' = 0
    /\ pc' = [pc EXCEPT !["checker"] = "loop"]
    /\ UNCHANGED <<faults, source, saveVars, fetched, now, wake, streamVars, post_id_to_content,
                   post_tracking_start, last_request_time, posts_data, updated_data,
                   current_time, finalized>>

ChkFetchRemoved ==
    /\ pc["checker"] = "fetch"
    /\ LET post_id == Head(snapshot)
           submission == Submission(TRUE, source[post_id])
           cached_data == CheckUpdate(record[post_id], submission,
                                      current_time, tracking_start, now)
       IN /\ fetched' = [fetched EXCEPT ![post_id] = Remember(@, submission)]
          /\ record' = Release([record EXCEPT ![post_id] = cached_data], post_id)
          /\ updated_data' = Append(updated_data, cached_data)
          /\ post_id_to_content' = Without(post_id_to_content, post_id)
          /\ post_tracking_start' = EvictStart(post_tracking_start, post_id)
          /\ finalized' = [finalized EXCEPT ![post_id] = @ + 1]
          /\ outcome' = [outcome EXCEPT ![post_id] = "removed"]
    /\ snapshot' = Tail(snapshot)
    /\ tracking_start' = 0
    /\ pc' = [pc EXCEPT !["checker"] = "loop"]
    /\ UNCHANGED <<faults, source, saveVars, now, wake, post, collected_posts, last_request_time,
                   posts_data, current_time>>

ChkFetchKept ==
    /\ pc["checker"] = "fetch"
    /\ LET post_id == Head(snapshot)
           submission == Submission(FALSE, source[post_id])
           cached_data == CheckUpdate(record[post_id], submission,
                                      current_time, tracking_start, now)
       IN /\ fetched' = [fetched EXCEPT ![post_id] = Remember(@, submission)]
          /\ record' = [record EXCEPT ![post_id] = cached_data]
          /\ post_id_to_content' = StoreKey(post_id_to_content, post_id)
          /\ outcome' = [outcome EXCEPT ![post_id] = "kept"]
    /\ snapshot' = Tail(snapshot)
    /\ tracking_start' = 0
    /\ pc' = [pc EXCEPT !["checker"] = "loop"]
    /\ UNCHANGED <<faults, source, saveVars, now, wake, post, collected_posts, post_tracking_start,
                   last_request_time, posts_data, updated_data, current_time,
                   finalized>>

ChkLoopDone ==
    /\ pc["checker"] = "loop"
    /\ snapshot = <<>>
    /\ pc' = [pc EXCEPT !["checker"] = "flush"]
    /\ UNCHANGED <<source, now, wake, streamVars, post_id_to_content,
                   post_tracking_start, last_request_time, checkerVars, historyVars>>

ChkNoFlush ==
    /\ pc["checker"] = "flush"
    /\ updated_data = <<>>
    /\ current_time' = 0
    /\ wake' = [wake EXCEPT !["checker"] = now + check_period]
    /\ pc' = [pc EXCEPT !["checker"] = "sleep"]
    /\ UNCHANGED <<source, saveVars, now, streamVars, post_id_to_content, post_tracking_start,
                   last_request_time, updated_data, snapshot, tracking_start,
                   posts_data, historyVars>>

ChkExtend ==
    /\ pc["checker"] = "flush"
    /\ updated_data # <<>>
    /\ posts_data' = posts_data \o updated_data
    /\ pc' = [pc EXCEPT !["checker"] = "save"]
    /\ UNCHANGED <<source, saveVars, now, wake, streamVars, post_id_to_content,
                   post_tracking_start, last_request_time, updated_data,
                   current_time, snapshot, tracking_start, historyVars>>

\* ---------------------------------------------------------------- save_data
\* the return of check_for_removals to main, which sleeps
ReturnToMain ==
    /\ updated_data' = <<>>
    /\ current_time' = 0
    /\ stats' = NoStats
    /\ wake' = [wake EXCEPT !["checker"] = now + check_period]
    /\ pc' = [pc EXCEPT !["checker"] = "sleep"]

SaveEmpty ==
    /\ pc["checker"] = "save"
    /\ posts_data = <<>>
    /\ ReturnToMain
    /\ UNCHANGED <<source, now, streamVars, post_id_to_content, post_tracking_start,
                   last_request_time, snapshot, tracking_start, posts_data,
                   files, historyVars>>

SaveDataset ==
    /\ pc["checker"] = "save"
    /\ posts_data # <<>>
    /\ files' = Append(files, [name |-> "reddit_posts", posts |-> IdsOf(posts_data)])
    /\ pc' = [pc EXCEPT !["checker"] = "stats"]
    /\ UNCHANGED <<source, now, wake, streamVars, post_id_to_content,
                   post_tracking_start, last_request_time, updated_data,
                   current_time, snapshot, tracking_start, posts_data, stats,
                   historyVars>>

SaveFail ==
    /\ pc["checker"] = "save"
    /\ posts_data # <<>>
    /\ pc' = [pc EXCEPT !["checker"] = "crashed"]
    /\ UNCHANGED <<source, now, wake, streamVars, post_id_to_content,
                   post_tracking_start, last_request_time, checkerVars, historyVars>>

\* SaveStats clearing the batch as soon as the statistics are computed
SaveStatsClearing ==
    /\ pc["checker"] = "stats"
    /\ stats' = Stats(posts_data)
    /\ posts_data' = <<>>
    /\ pc' = [pc EXCEPT !["checker"] = "stats_file"]
    /\ UNCHANGED <<source, now, wake, streamVars, post_id_to_content,
                   post_tracking_start, last_request_time, updated_data,
                   current_time, snapshot, tracking_start, files,
                   historyVars>>

SaveStats ==
    /\ pc["checker"] = "stats"
    /\ stats' = Stats(posts_data)
    /\ pc' = [pc EXCEPT !["checker"] = "stats_file"]
    /\ UNCHANGED <<source, now, wake, streamVars, post_id_to_content,
                   post_tracking_start, last_request_time, updated_data,
                   current_time, snapshot, tracking_start, posts_data, files,
                   historyVars>>

SaveStatsFile ==
    /\ pc["checker"] = "stats_file"
    /\ files' = Append(files, [name |-> "dataset_stats", posts |-> stats.total_posts])
    /\ pc' = [pc EXCEPT !["checker"] = "clear"]
    /\ UNCHANGED <<source, now, wake, streamVars, post_id_to_content,
                   post_tracking_start, last_request_time, updated_data,
                   current_time, snapshot, tracking_start, posts_data, stats,
                   historyVars>>

SaveStatsFail ==
    /\ pc["checker"] = "stats_file"
    /\ pc' = [pc EXCEPT !["checker"] = "crashed"]
    /\ UNCHANGED <<source, now, wake, streamVars, post_id_to_content,
                   post_tracking_start, last_request_time, checkerVars, historyVars>>

\* SaveOk leaving the batch in memory
SaveOkKeeping ==
    /\ pc["checker"] = "clear"
    /\ posts_data' = posts_data
    /\ ReturnToMain
    /\ UNCHANGED <<source, now, streamVars, post_id_to_content, post_tracking_start,
                   last_request_time, snapshot, tracking_start, files,
                   historyVars>>

SaveOk ==
    /\ pc["checker"] = "clear"
    /\ posts_data' = <<>>
    /\ ReturnToMain
    /\ UNCHANGED <<source, now, streamVars, post_id_to_content, post_tracking_start,
                   last_request_time, snapshot, tracking_start, files,
                   historyVars>>

\* ------------------------------------------------------------------- main
ChkWake ==
    /\ pc["checker"] = "sleep"
    /\ now >= wake["checker"]
    /\ wake' = [wake EXCEPT !["checker"] = 0]
    /\ pc' = [pc EXCEPT !["checker"] = "begin"]
    /\ UNCHANGED <<source, now, streamVars, post_id_to_content,
                   post_tracking_start, last_request_time, checkerVars, historyVars>>

SaveData ==
    \/ SaveDataset \/ SaveFail \/ SaveStats \/ SaveStatsFile \/ SaveStatsFail
    \/ SaveOk

RateLimit == \E th \in Threads : RlCheck(th) \/ RlWake(th) \/ RlGrant(th)

Stream ==
    \/ StreamDeliver \/ StreamSkip \/ StreamCollect
    \/ CollectFail \/ CollectStore \/ CollectStart \/ StreamAdmit

Checker ==
    \/ ChkBegin \/ ChkSnapshot \/ ChkKeyError \/ ChkTimeout \/ ChkTrack
    \/ ChkFetchFail \/ ChkFetchRemoved \/ ChkFetchKept \/ ChkLoopDone
    \/ ChkNoFlush \/ ChkExtend \/ SaveData \/ ChkWake

Next == Tick \/ RateLimit \/ Stream \/ Checker

Spec == Init /\ [][Next]_vars

\* ---------------------------------------------------- fair specification
\* The last instant the model observes stands for every later instant: a
\* sleep that is pending there is taken to have elapsed.
LastTime == Epoch + tracking_duration + MaxLate

HorizonWake(th) ==
    /\ Running
    /\ now = LastTime
    /\ wake[th] > now
    /\ wake' = [wake EXCEPT ![th] = now]
    /\ UNCHANGED <<source, now, pc, streamVars, post_id_to_content, post_tracking_start,
                   last_request_time, checkerVars, historyVars>>

StreamThread ==
    Stream \/ RlCheck("stream") \/ RlWake("stream") \/ RlGrant("stream")
           \/ HorizonWake("stream")

CheckerThread ==
    Checker \/ RlCheck("checker") \/ RlWake("checker") \/ RlGrant("checker")
            \/ HorizonWake("checker")

FairNext == Tick \/ StreamThread \/ CheckerThread

\* Both threads are scheduled again and again and the clock advances.
FairSpec ==
    /\ Init
    /\ [][FairNext]_vars
    /\ WF_vars(Tick)
    /\ WF_vars(StreamThread)
    /\ WF_vars(CheckerThread)

\* ------------------------------------------- the stream thread, faulty feed
\* stream_posts alone, over a feed that may raise instead of delivering
StreamLoop == StreamThread \/ FeedFault \/ BackoffWake

StreamNext == Tick \/ StreamLoop

StreamSpec == Init /\ [][StreamNext]_vars

\* ------------------------------------------- check cycles, changing source
\* Votes and comments arrive at the source.
Vote ==
    /\ Running
    /\ \E id \in PostIds, e \in Engagements :
          /\ e # source[id]
          /\ source' = [source EXCEPT ![id] = e]
    /\ UNCHANGED <<now, pc, wake, streamVars, post_id_to_content,
                   post_tracking_start, last_request_time, checkerVars, historyVars>>

\* The stream thread has admitted the posts of `ids`, one min_request_interval
\* after the other, and the feed delivers nothing more; the first check cycle
\* is about to begin.
Admitted(ids, rec) ==
    /\ now = Epoch + (Len(ids) - 1) * min_request_interval
    /\ source \in [PostIds -> Engagements]
    /\ pc = [th \in Threads |-> IF th = "stream" THEN "iter" ELSE "begin"]
    /\ wake = [th \in Threads |-> 0]
    /\ post = NoPost
    /\ record = rec
    /\ collected_posts = Keys(ids)
    /\ post_id_to_content = ids
    /\ post_tracking_start =
          [id \in Keys(ids) |->
              Epoch + ((CHOOSE i \in 1..Len(ids) : ids[i] = id) - 1) * min_request_interval]
    /\ last_request_time = now
    /\ posts_data = <<>>
    /\ updated_data = <<>>
    /\ current_time = 0
    /\ snapshot = <<>>
    /\ tracking_start = 0
    /\ stats = NoStats
    /\ files = <<>>
    /\ finalized = [id \in PostIds |-> 0]
    /\ outcome = [id \in PostIds |-> "none"]
    /\ fetched = [id \in PostIds |-> <<>>]
    /\ faults = 0

\* the orders in which posts can have been admitted
Admissions ==
    {ids \in UNION {[1..n -> PostIds] : n \in 1..Cardinality(PostIds)} :
        /\ \A i, j \in 1..Len(ids) : ids[i] = ids[j] => i = j
        /\ Epoch + (Len(ids) - 1) * min_request_interval \in Times}

CheckInit ==
    \E ids \in Admissions :
        \E rec \in [Keys(ids) -> {Submission(r, e) : r \in BOOLEAN, e \in Engagements}] :
            Admitted(ids, [id \in Keys(ids) |-> PostData(id, rec[id])])

CheckCycle ==
    \/ ChkBegin \/ ChkSnapshot \/ ChkTimeout \/ ChkTrack
    \/ RlCheck("checker") \/ RlWake("checker") \/ RlGrant("checker")
    \/ ChkFetchFail \/ ChkFetchRemoved \/ ChkFetchKept \/ ChkLoopDone
    \/ ChkNoFlush \/ ChkExtend \/ SaveData \/ ChkWake

CheckNext == Tick \/ Vote \/ CheckCycle

CheckSpec == CheckInit /\ [][CheckNext]_vars

\* --------------------------------------- collect_post_data for any post
\* collect_post_data is called for a post, tracked or not, by a caller that
\* makes no dedup test
CollectCall ==
    /\ pc["stream"] = "iter"
    /\ \E p \in PostIds : post' = p
    /\ pc' = [pc EXCEPT !["stream"] = "rl_check"]
    /\ UNCHANGED <<source, now, wake, record, collected_posts, post_id_to_content,
                   post_tracking_start, last_request_time, checkerVars, historyVars>>

\* return post_data to that caller
CollectReturn ==
    /\ pc["stream"] = "admit"
    /\ post' = NoPost
    /\ pc' = [pc EXCEPT !["stream"] = "iter"]
    /\ UNCHANGED <<source, now, wake, record, collected_posts, post_id_to_content,
                   post_tracking_start, last_request_time, checkerVars, historyVars>>

CollectPostData ==
    \/ CollectCall
    \/ RlCheck("stream") \/ RlWake("stream") \/ RlGrant("stream")
    \/ CollectFail \/ CollectStore \/ CollectStart \/ CollectReturn

CollectNext == Tick \/ CollectPostData

CollectSpec == CheckInit /\ [][CollectNext]_vars

\* ----------------------------------------------- save_data on any batch
MaxBatch == 3
StatScores == {-2, 7, 10}
StatComments == {0, 3}

\* the batches save_data may be called with: an empty one included
StatBatches ==
    UNION {[1..n -> {PostData("p1", Submission(r, [score |-> sc, num_comments |-> c])) :
                        r \in BOOLEAN, sc \in StatScores, c \in StatComments}] :
              n \in 0..MaxBatch}

StatsInit ==
    /\ now = Epoch
    /\ source = [id \in PostIds |-> NewPost]
    /\ pc = [th \in Threads |-> IF th = "stream" THEN "iter" ELSE "save"]
    /\ wake = [th \in Threads |-> 0]
    /\ post = NoPost
    /\ record = <<>>
    /\ collected_posts = {}
    /\ post_id_to_content = <<>>
    /\ post_tracking_start = <<>>
    /\ last_request_time = 0
    /\ posts_data \in StatBatches
    /\ updated_data = <<>>
    /\ current_time = 0
    /\ snapshot = <<>>
    /\ tracking_start = 0
    /\ stats = NoStats
    /\ files = <<>>
    /\ finalized = [id \in PostIds |-> 0]
    /\ outcome = [id \in PostIds |-> "none"]
    /\ fetched = [id \in PostIds |-> <<>>]
    /\ faults = 0

StatsNext == SaveEmpty \/ SaveData

StatsSpec == StatsInit /\ [][StatsNext]_vars

\* ------------------------------------------------------------------ claims
Tracked(id) == id \in Keys(post_id_to_content) /\ id \in DOMAIN post_tracking_start

\* the checker executes a statement of check_for_removals
CheckerMoves == pc'["checker"] # pc["checker"] \/ snapshot' # snapshot

Batches == updated_data \o posts_data

\* C1: once a post id has been evicted and appended to the finalized batch it
\* is never again a key of post_id_to_content, nor an entry of a later
\* snapshot of check_for_removals.
C1_EvictionTerminal ==
    \A id \in PostIds :
        finalized[id] > 0 =>
            id \notin Keys(post_id_to_content) /\ id \notin Keys(snapshot)

\* C2: over any sequence of admissions and check cycles, at most one record
\* per post id is ever appended to a finalized batch, and no batch holds two
\* records of one id.
C2_FinalizedAtMostOnce ==
    /\ \A id \in PostIds : finalized[id] <= 1
    /\ \A i, j \in 1..Len(updated_data) :
          updated_data[i].id = updated_data[j].id => i = j

\* a finalized id came back as a key without a tracking start and a later
\* cycle met it again
C2_Witness ==
    \E id \in PostIds : finalized[id] = 1 /\ outcome[id] = "key_error"

\* C3: any two grants of _rate_limit, from either thread, are at least
\* min_request_interval apart (last_request_time is the previous grant; the
\* clock starts at min_request_interval, so the first grant passes).
C3_GrantsSerialized ==
    [][\A th \in Threads :
          (pc[th] = "rl_grant" /\ pc'[th] # "rl_grant") =>
              now - last_request_time >= min_request_interval]_vars

\* C4: when check_for_removals comes to an entry whose current_time minus
\* tracking start exceeds tracking_duration, that step evicts it from both
\* dictionaries and appends its record to the batch, without entering
\* _rate_limit and without a fetch; and when the loop over the snapshot is
\* done, no entry with a tracking start is left whose current_time minus
\* tracking start exceeds tracking_duration.
C4_TimeoutFinalizesWithoutFetch ==
    [][/\ (pc'["checker"] = "flush") =>
            \A id \in PostIds :
                (id \in Keys(post_id_to_content') /\ id \in DOMAIN post_tracking_start')
                    => ~(current_time' - post_tracking_start'[id] > tracking_duration)
       /\ (/\ pc["checker"] = "loop"
           /\ snapshot # <<>>
           /\ Head(snapshot) \in DOMAIN post_tracking_start
           /\ current_time - post_tracking_start[Head(snapshot)] > tracking_duration
           /\ CheckerMoves)
          => (/\ pc'["checker"] = "loop"
              /\ last_request_time' = last_request_time
              /\ Head(snapshot) \notin Keys(post_id_to_content')
              /\ Head(snapshot) \notin DOMAIN post_tracking_start'
              /\ Len(updated_data') = Len(updated_data) + 1
              /\ updated_data'[Len(updated_data')].id = Head(snapshot)
              /\ outcome'[Head(snapshot)] = "timeout")]_vars

C4_Witness ==
    \E id \in PostIds : outcome[id] = "timeout" /\ pc["checker"] = "loop"

\* C5: when the fetch of a tracked, not timed-out entry reports removal, the
\* same step evicts the entry and appends its record to the cycle's batch with
\* is_removed true and hours_tracked = (current_time - tracking start) / 3600.
C5_RemovalFinalizesInCycle ==
    [][\A id \in PostIds :
          (outcome[id] # "removed" /\ outcome'[id] = "removed") =>
              /\ id \in DOMAIN post_tracking_start
              /\ id \notin Keys(post_id_to_content')
              /\ id \notin DOMAIN post_tracking_start'
              /\ Len(updated_data') = Len(updated_data) + 1
              /\ LET r == updated_data'[Len(updated_data')]
                 IN /\ r.id = id
                    /\ r.is_removed
                    /\ r.hours_tracked =
                          [num |-> current_time - post_tracking_start[id],
                           den |-> 3600]]_vars

C5_Witness ==
    \E i \in 1..Len(updated_data) :
        outcome[updated_data[i].id] = "removed" /\ updated_data[i].is_removed

\* C7: a failed fetch leaves the entry as it was (still a key of both
\* dictionaries, record and tracking start unchanged, nothing appended to the
\* batch), the loop goes on with the rest of the snapshot, and the next
\* snapshot holds the entry again.
C7_FetchFailureLeavesEntry ==
    [][/\ \A id \in PostIds :
            (outcome[id] # "fetch_error" /\ outcome'[id] = "fetch_error") =>
                /\ id \in Keys(post_id_to_content')
                /\ id \in DOMAIN post_tracking_start'
                /\ record'[id] = record[id]
                /\ post_id_to_content' = post_id_to_content
                /\ post_tracking_start' = post_tracking_start
                /\ updated_data' = updated_data
                /\ snapshot' = Tail(snapshot)
                /\ pc'["checker"] = "loop"
       /\ (pc["checker"] = "snap" /\ pc'["checker"] = "loop") =>
            \A id \in PostIds :
                outcome[id] = "fetch_error" => id \in Keys(snapshot')]_vars

\* a fetch failed while another entry of the snapshot is still to be processed
C7_Witness ==
    \E id \in PostIds :
        outcome[id] = "fetch_error" /\ pc["checker"] = "loop" /\ snapshot # <<>>

\* C8: when a check cycle has completed, no entry the cycle processed is
\* still a key of post_id_to_content with is_removed true.
C8_NoRemovedEntryAfterCycle ==
    pc["checker"] = "sleep" =>
        \A id \in Keys(post_id_to_content) :
            outcome[id] # "none" => ~record[id].is_removed

\* C9: a record finalized by timeout carries
\* hours_tracked = (current_time - tracking start) / 3600 of the finalizing check.
C9_TimeoutHoursTracked ==
    [][\A id \in PostIds :
          (outcome[id] # "timeout" /\ outcome'[id] = "timeout") =>
              LET r == updated_data'[Len(updated_data')]
              IN /\ "hours_tracked" \in DOMAIN r
                 /\ r.hours_tracked =
                       [num |-> current_time - post_tracking_start[id],
                        den |-> 3600]]_vars

\* C10: every hours_tracked written by check_for_removals is >= 0.
C10_HoursTrackedNonNegative ==
    /\ \A id \in DOMAIN record :
          "hours_tracked" \in DOMAIN record[id] => record[id].hours_tracked.num >= 0
    /\ \A i \in 1..Len(Batches) :
          "hours_tracked" \in DOMAIN Batches[i] => Batches[i].hours_tracked.num >= 0

\* the dict a successful check of id has just written
Checked(id) == IF outcome'[id] = "kept" THEN record'[id] ELSE Last(updated_data')

\* a check of id has just fetched the submission and updated the record
ChecksId(id) ==
    /\ outcome[id] \notin {"kept", "removed"}
    /\ outcome'[id] \in {"kept", "removed"}

\* fraction a is at most fraction b (positive denominators)
FracLeq(a, b) == a.num * b.den <= b.num * a.den

\* C11: the hours_tracked a check cycle writes into the record of a tracked
\* entry is never less than the hours_tracked an earlier check cycle wrote
\* into it, and the tracking start of an entry never changes while it has one.
C11_HoursTrackedMonotone ==
    [][\A id \in PostIds :
          /\ (ChecksId(id) /\ fetched[id] # <<>>) =>
                FracLeq(record[id].hours_tracked, Checked(id).hours_tracked)
          /\ (id \in DOMAIN post_tracking_start /\ id \in DOMAIN post_tracking_start') =>
                post_tracking_start'[id] = post_tracking_start[id]]_vars

\* an entry was checked and kept by two check cycles
C11_Witness ==
    \E id \in PostIds :
        /\ Len(fetched[id]) = 2
        /\ outcome[id] = "kept"
        /\ record[id].hours_tracked.num > 0

\* C12: when the feed delivers a post whose id is in collected_posts, the
\* stream thread's next step goes back to the feed without entering
\* _rate_limit or collect_post_data, and leaves post_id_to_content,
\* post_tracking_start, collected_posts and the stored records as they were.
C12_DuplicateNotAdmitted ==
    [][(/\ pc["stream"] = "dedup"
        /\ post \in collected_posts
        /\ pc'["stream"] # "dedup")
       => (/\ pc'["stream"] = "iter"
           /\ post_id_to_content' = post_id_to_content
           /\ post_tracking_start' = post_tracking_start
           /\ collected_posts' = collected_posts
           /\ record' = record
           /\ last_request_time' = last_request_time)]_vars

\* the feed has delivered again a post that is admitted and tracked
C12_Witness ==
    /\ pc["stream"] = "dedup"
    /\ post \in collected_posts
    /\ Tracked(post)

\* C13: the process is never terminated: whatever fails, a write in save_data
\* included, main's check loop goes on.
C13_CheckLoopKeepsRunning == pc["checker"] # "crashed"

\* s begins with all of t
Extends(s, t) == Len(s) >= Len(t) /\ SubSeq(s, 1, Len(t)) = t

\* the files written by a complete save_data of the batch
FlushFiles(batch) ==
    <<[name |-> "reddit_posts", posts |-> IdsOf(batch)],
      [name |-> "dataset_stats", posts |-> Len(batch)]>>

\* C14: when a write of save_data fails, posts_data still holds every record
\* of the batch; and a record leaves posts_data only in a step before which
\* the dataset file and the stats file of the batch have both been written.
C14_BatchKeptUntilWritten ==
    [][/\ (pc'["checker"] = "crashed" /\ pc["checker"] # "crashed") =>
            /\ posts_data' = posts_data
            /\ updated_data # <<>>
            /\ posts_data = updated_data
       /\ ~Extends(posts_data', posts_data) =>
            /\ Len(files) >= 2
            /\ SubSeq(files, Len(files) - 1, Len(files)) = FlushFiles(posts_data)
            /\ posts_data' = <<>>]_vars

\* the stats file could not be written after the dataset file had been
C14_Witness ==
    /\ pc["checker"] = "crashed"
    /\ files # <<>>
    /\ Last(files).name = "reddit_posts"
    /\ posts_data # <<>>

\* the post ids written to dataset files, file after file
RECURSIVE WrittenIds(_)
WrittenIds(fs) ==
    IF fs = <<>> THEN <<>>
    ELSE IF Head(fs).name = "reddit_posts" THEN Head(fs).posts \o WrittenIds(Tail(fs))
    ELSE WrittenIds(Tail(fs))

NoDuplicates(s) == \A i, j \in 1..Len(s) : s[i] = s[j] => i = j

\* the ids of the records the current check cycle has finalized
FinalizedInCycle == {id \in PostIds : outcome[id] \in {"timeout", "removed"}}

\* C15: save_data is entered only when the loop over the snapshot is done and
\* the cycle has finalized at least one record, and then posts_data holds
\* exactly the records the cycle finalized; when save_data returns posts_data
\* is empty; and no post id is written to two dataset files.
C15_FlushOncePerCycle ==
    [][/\ (pc'["checker"] = "save" /\ pc["checker"] # "save") =>
            /\ snapshot = <<>>
            /\ updated_data # <<>>
            /\ posts_data' = updated_data
            /\ Keys(IdsOf(posts_data')) = FinalizedInCycle
       /\ (pc'["checker"] = "sleep" /\ pc["checker"] # "sleep") =>
            posts_data' = <<>>
       /\ NoDuplicates(WrittenIds(files'))]_vars

\* two check cycles have each flushed a batch
C15_Witness ==
    /\ Len(files) = 4
    /\ pc["checker"] = "sleep"
    /\ posts_data = <<>>

\* the dict r without the fields of F
Except(r, F) == [f \in DOMAIN r \ F |-> r[f]]

\* a check of id has fetched the same values as the check of id before it
RechecksSame(id) ==
    /\ ChecksId(id)
    /\ fetched[id] # <<>>
    /\ Last(fetched'[id]) = Last(fetched[id])

\* C16 as stated: a check cycle that fetches for a tracked entry the same
\* values as the cycle before leaves every field of the stored record as it
\* was, except timestamp_checked.
C16_RecheckChangesOnlyTimestamp ==
    [][\A id \in PostIds :
          RechecksSame(id) =>
              Except(Checked(id), {"timestamp_checked"})
                  = Except(record[id], {"timestamp_checked"})]_vars

\* C16 amended: a check cycle that fetches for a tracked entry the same values
\* as the cycle before leaves every field of the stored record as it was,
\* except timestamp_checked and hours_tracked.
C16_RecheckChangesOnlyTimes ==
    [][\A id \in PostIds :
          RechecksSame(id) =>
              Except(Checked(id), {"timestamp_checked", "hours_tracked"})
                  = Except(record[id], {"timestamp_checked", "hours_tracked"})]_vars

\* two check cycles in a row fetched the same values for an entry
C16_Witness ==
    \E id \in PostIds :
        /\ Len(fetched[id]) = 2
        /\ fetched[id][1] = fetched[id][2]
        /\ id \in DOMAIN record
        /\ "timestamp_checked" \in DOMAIN record[id]
        /\ record[id].timestamp_checked >= Epoch + tracking_duration

\* C20: a successful fetch for a not timed-out entry writes into the stored
\* record the fetched is_removed, score and num_comments, the time of the
\* check as timestamp_checked and (current_time - tracking start) / 3600 as
\* hours_tracked.
C20_CheckOverwritesRecord ==
    [][\A id \in PostIds :
          ChecksId(id) =>
              /\ Checked(id).is_removed = Last(fetched'[id]).is_removed
              /\ Checked(id).score = Last(fetched'[id]).score
              /\ Checked(id).num_comments = Last(fetched'[id]).num_comments
              /\ Checked(id).timestamp_checked = now
              /\ Checked(id).hours_tracked =
                    [num |-> current_time - tracking_start, den |-> 3600]]_vars

\* the number of records of the batch with is_removed true
Removed(batch) == Cardinality({i \in 1..Len(batch) : batch[i].is_removed})

\* C17: save_data called with an empty batch returns at once: no statistics
\* are computed and no file is written.  Statistics are computed only for a
\* non-empty batch, and then total_posts is the batch size, removed_posts the
\* number of records with is_removed true, removal_rate is
\* removed_posts / total_posts * 100, and no quotient has denominator 0.
C17_BatchStatistics ==
    [][/\ (pc["checker"] = "save" /\ posts_data = <<>> /\ pc' # pc) =>
            /\ pc'["checker"] = "sleep"
            /\ stats' = NoStats
            /\ files' = files
       /\ stats' # NoStats =>
            /\ posts_data' # <<>>
            /\ stats'.total_posts = Len(posts_data')
            /\ stats'.removed_posts = Removed(posts_data')
            /\ stats'.removal_rate.den # 0
            /\ stats'.removal_rate.num * Len(posts_data')
                  = Removed(posts_data') * 100 * stats'.removal_rate.den
            /\ stats'.engagement_stats.score.avg.den # 0
            /\ stats'.engagement_stats.comments.avg.den # 0]_vars

\* statistics of a batch some of whose records are removed and some are not
C17_Witness ==
    /\ stats # NoStats
    /\ stats.removed_posts > 0
    /\ stats.removed_posts < stats.total_posts
    /\ Len(files) = 2

RECURSIVE Sum(_)
Sum(s) == IF s = <<>> THEN 0 ELSE Head(s) + Sum(Tail(s))

ScoresOf(batch) == [i \in 1..Len(batch) |-> batch[i].score]

Least(S) == CHOOSE m \in S : \A x \in S : m <= x
Greatest(S) == CHOOSE m \in S : \A x \in S : m >= x

\* C18: the engagement_stats.score that save_data reports for a batch has
\* min = the least score, max = the greatest score and avg = the sum of the
\* scores divided by the batch size.
C18_ScoreStatistics ==
    stats # NoStats =>
        LET scores == ScoresOf(posts_data)
            reported == stats.engagement_stats.score
        IN /\ reported.min = [inf |-> FALSE, val |-> Least(Keys(scores))]
           /\ reported.max = Greatest(Keys(scores))
           /\ reported.avg.den # 0
           /\ reported.avg.num * Len(scores) = Sum(scores) * reported.avg.den

\* C19: whenever check_for_removals is at an entry of its snapshot, every key
\* of post_id_to_content is also a key of post_tracking_start.
C19_NoTornEntry ==
    (pc["checker"] = "loop" /\ snapshot # <<>>) =>
        \A id \in Keys(post_id_to_content) : id \in DOMAIN post_tracking_start

\* C21: collect_post_data run for an id that is a key of post_id_to_content
\* leaves the stored record as it is, and run for an id that has a tracking
\* start leaves post_tracking_start as it is; an id without one gets the
\* tracking start now.
C21_AdmitNoOpIfTracked ==
    [][/\ (/\ pc["stream"] = "build"
           /\ pc'["stream"] = "start"
           /\ post \in Keys(post_id_to_content))
          => (record' = record /\ post_id_to_content' = post_id_to_content)
       /\ (pc["stream"] = "start" /\ pc'["stream"] = "admit") =>
            IF post \in DOMAIN post_tracking_start
            THEN post_tracking_start' = post_tracking_start
            ELSE post_tracking_start' = (post :> now) @@ post_tracking_start]_vars

\* C22: no fault ends the stream loop.  A failure while collecting a post
\* leaves post_id_to_content, post_tracking_start and collected_posts as they
\* are, with the post in none of them, and the loop is back at the feed; a
\* fault of the feed, whatever the number of faults before it, is followed by a
\* back-off of retry_delay seconds, after which the feed is iterated again,
\* and at the feed the loop can always take the next item.
C22_StreamSurvivesFaults ==
    [][/\ (pc["stream"] = "build" /\ pc'["stream"] = "iter") =>
            /\ post_id_to_content' = post_id_to_content
            /\ post_tracking_start' = post_tracking_start
            /\ collected_posts' = collected_posts
            /\ post \notin Keys(post_id_to_content')
            /\ post \notin DOMAIN post_tracking_start'
            /\ post \notin collected_posts'
       /\ (faults' = faults + 1) =>
            /\ pc'["stream"] = "backoff"
            /\ wake'["stream"] = now + retry_delay
       /\ (pc["stream"] = "backoff" /\ pc'["stream"] # "backoff") =>
            /\ pc'["stream"] = "iter"
            /\ now >= wake["stream"]
       /\ (pc["stream"] = "iter") => ENABLED StreamDeliver]_vars

\* two feed faults in a row, the stream backing off after the second
C22_Witness == faults >= 2 /\ pc["stream"] = "backoff"

\* C6: every post admitted into tracking is eventually finalized (stated for
\* the posts whose tracking_duration ends before the last observed instant).
C6_EventuallyFinalized ==
    \A id \in PostIds :
        (Tracked(id) /\ post_tracking_start[id] + tracking_duration < LastTime)
            ~> (finalized[id] > 0)
====
